---------------------------- MODULE Spec2Model ----------------------------
(***************************************************************************)
(* GraphTools (src/spatial.py): Delaunay triangulation and Gabriel graph   *)
(* of a finite set of 2-D points.                                          *)
(*                                                                         *)
(* A point is a pair <<x, y>> of integers.  A point array is a tuple of    *)
(* points; the vertex indices kept in simplices and edges are the Python   *)
(* indices 0..n-1, so that points[i] of the source is PointAt(points, i).  *)
(* A simplex is a tuple of three indices, a candidate edge as produced by  *)
(* itertools.combinations is a tuple of two indices, and frozenset(edge)   *)
(* is a set of indices.                                                    *)
(***************************************************************************)
EXTENDS Integers, Sequences, FiniteSets, TLC

(***************************************************************************)
(* Bounds of the explored inputs.                                          *)
(***************************************************************************)
\* coordinates of the enumerated points range over 0..GridMax
GridMax == 2

VARIABLES
    attrs,            \* names of the attributes the instance has (its __dict__)
    points,           \* self.points
    triangulation,    \* self.triangulation: [points, simplices] of the Delaunay object
    simplices,        \* self.simplices
    gabriel_edges,    \* self.gabriel_edges
    metric,           \* self.metric
    qhull,            \* the triangulation library's (fixed) output conventions
    last,             \* the last public call and its outcome
    repeated,         \* the last call repeated gabriel_graph(points) of the call before
    pc,               \* position inside _gabriel_graph: "idle", "loop", "done"
    arg_points,       \* _gabriel_graph: the argument points
    si,               \* _gabriel_graph: index of the simplex being iterated
    ei,               \* _gabriel_graph: index of the edge within combinations(simplex, 2)
    edges,            \* _gabriel_graph: the list edges
    removed_edges     \* _gabriel_graph: the list removed_edges

vars == <<attrs, points, triangulation, simplices, gabriel_edges, metric, qhull,
          last, repeated, pc, arg_points, si, ei, edges, removed_edges>>

objVars == <<attrs, points, triangulation, simplices, gabriel_edges, metric>>
loopVars == <<pc, arg_points, si, ei, edges, removed_edges>>

(***************************************************************************)
(* Point arrays.                                                           *)
(***************************************************************************)
Coords == 0..GridMax
Point == Coords \X Coords

PointAt(pts, i) == pts[i + 1]
Indices(pts) == 0..(Len(pts) - 1)

\* lexicographic order on points, used only to enumerate each point set once
PointLess(p, q) == p[1] < q[1] \/ (p[1] = q[1] /\ p[2] < q[2])

Origin == <<0, 0>>

\* the enumerated arrays hold two (too few), three or four points
PointCounts == {2, 3, 4}

\* the enumerated point arrays: distinct grid points in increasing order, the
\* first of them the origin
PointArrays ==
    UNION { { <<Origin>> \o rest :
                rest \in { r \in [1..(n - 1) -> Point \ {Origin}] :
                             \A i \in 1..(n - 2) : PointLess(r[i], r[i + 1]) } } :
            n \in PointCounts }


(***************************************************************************)
(* The point arrays the public calls are made with.                        *)
(***************************************************************************)
Square    == << <<0, 0>>, <<1, 0>>, <<1, 1>>, <<0, 1>> >>
Trapezoid == << <<0, 0>>, <<0, 1>>, <<1, 2>>, <<2, 2>> >>
Star      == << <<0, 0>>, <<2, 1>>, <<1, 2>>, <<1, 1>> >>
Acute     == << <<0, 0>>, <<2, 0>>, <<1, 2>> >>
RightTri  == << <<0, 0>>, <<1, 0>>, <<0, 1>> >>
Obtuse    == << <<0, 0>>, <<2, 1>>, <<1, 1>> >>
Collinear == << <<0, 0>>, <<1, 1>>, <<2, 2>> >>
TwoPoints == << <<0, 0>>, <<1, 0>> >>

CallPoints == {Square, Trapezoid, Star, Acute, RightTri, Obtuse, Collinear, TwoPoints}

(***************************************************************************)
(* Geometry kernel.                                                        *)
(***************************************************************************)
\* a sum of the absolute differences of the coordinates
SumAbsDiff(x, y) ==
    (IF x[1] >= y[1] THEN x[1] - y[1] ELSE y[1] - x[1])
      + (IF x[2] >= y[2] THEN x[2] - y[2] ELSE y[2] - x[2])

\* np.sum(np.power(x - y, 2))
SumSqDiff(x, y) == (x[1] - y[1]) * (x[1] - y[1]) + (x[2] - y[2]) * (x[2] - y[2])

\* a comparison that also accepts the boundary of the circle
InsideOrOnMidpointCircle(x, y, point) ==
    SumSqDiff(x, y) >= SumSqDiff(x, point) + SumSqDiff(y, point)

\* GraphTools._inside_midpoint_circle: point is strictly inside the circle of
\* diameter xy
_inside_midpoint_circle(x, y, point) ==
    LET diam_sq == SumSqDiff(x, y)
    IN  diam_sq > SumSqDiff(x, point) + SumSqDiff(y, point)

(***************************************************************************)
(* The triangulation provider, scipy.spatial.Delaunay, by its contract:    *)
(* a set of non-degenerate triangles over the points, with pairwise        *)
(* disjoint interiors, covering the convex hull, none of whose             *)
(* circumscribed circles holds a point strictly inside.  It fails when no  *)
(* such triangle exists (fewer than 3 points, or all points collinear).    *)
(***************************************************************************)
\* twice the signed area of the triangle a, b, c
Orient(a, b, c) == (b[1] - a[1]) * (c[2] - a[2]) - (b[2] - a[2]) * (c[1] - a[1])

Norm2(a, d) == (a[1] - d[1]) * (a[1] - d[1]) + (a[2] - d[2]) * (a[2] - d[2])

\* the in-circle determinant of a, b, c relative to d
InCircleDet(a, b, c, d) ==
    LET ax == a[1] - d[1]  ay == a[2] - d[2]  az == Norm2(a, d)
        bx == b[1] - d[1]  by == b[2] - d[2]  bz == Norm2(b, d)
        cx == c[1] - d[1]  cy == c[2] - d[2]  cz == Norm2(c, d)
    IN  ax * (by * cz - bz * cy) - ay * (bx * cz - bz * cx) + az * (bx * cy - by * cx)

\* d lies strictly inside the circle through a, b, c
InCircumcircle(a, b, c, d) == InCircleDet(a, b, c, d) * Orient(a, b, c) > 0

\* the increasing tuple of a set of three indices
SortedTuple(t) == CHOOSE s \in [1..3 -> t] : s[1] < s[2] /\ s[2] < s[3]

TriangleSets(pts) == { t \in SUBSET Indices(pts) : Cardinality(t) = 3 }

\* the triangles whose circumscribed circle is empty
EmptyTriangles(pts) ==
    { t \in TriangleSets(pts) :
        LET s == SortedTuple(t)
            a == PointAt(pts, s[1])
            b == PointAt(pts, s[2])
            c == PointAt(pts, s[3])
        IN  /\ Orient(a, b, c) # 0
            /\ \A d \in Indices(pts) \ t : ~InCircumcircle(a, b, c, PointAt(pts, d)) }

\* some edge of t1 has t1 on one closed side and all of t2 on the other
Separates(pts, t1, t2) ==
    \E u \in t1 : \E v \in t1 \ {u} : \E w \in t1 \ {u, v} :
        \A x \in t2 :
            Orient(PointAt(pts, u), PointAt(pts, v), PointAt(pts, x))
              * Orient(PointAt(pts, u), PointAt(pts, v), PointAt(pts, w)) <= 0

Overlap(pts, t1, t2) == ~(Separates(pts, t1, t2) \/ Separates(pts, t2, t1))

\* the Delaunay triangulations of pts, as sets of triangles (more than one when
\* four or more points are cocircular)
Clashes(pts, E) ==
    { pair \in E \X E : pair[1] # pair[2] /\ Overlap(pts, pair[1], pair[2]) }

\* the maximal sets of triangles of E no two of which clash
MaximalCompatible(E, clash) ==
    { T \in SUBSET E :
        /\ T # {}
        /\ \A t1 \in T : \A t2 \in T : <<t1, t2>> \notin clash
        /\ \A t \in E \ T : \E u \in T : <<t, u>> \in clash }

TriangulationsOf(pts, E) == MaximalCompatible(E, Clashes(pts, E))

DelaunayTriangulations(pts) == TriangulationsOf(pts, EmptyTriangles(pts))

\* whether the arrays of the public calls admit no triangulation, computed once
DegenerateOfCalls == [pts \in CallPoints |-> EmptyTriangles(pts) = {}]

\* QhullError: the points admit no triangulation
Degenerate(pts) ==
    IF pts \in CallPoints THEN DegenerateOfCalls[pts] ELSE EmptyTriangles(pts) = {}

TupleLess(s, t) ==
    \/ s[1] < t[1]
    \/ s[1] = t[1] /\ s[2] < t[2]
    \/ s[1] = t[1] /\ s[2] = t[2] /\ s[3] < t[3]

\* the triangles of T as increasing tuples, in increasing order
SortTriangles(T) ==
    LET tuples == { SortedTuple(t) : t \in T }
    IN  CHOOSE s \in [1..Cardinality(T) -> tuples] :
            \A i \in 1..(Cardinality(T) - 1) : TupleLess(s[i], s[i + 1])

Reverse(s) == [k \in 1..Len(s) |-> s[Len(s) + 1 - k]]

\* the tuple s rotated left by r places
Rotate(s, r) == [k \in 1..Len(s) |-> s[((k - 1 + r) % Len(s)) + 1]]

\* the conventions of the library build: which triangulation it returns for
\* cocircular points, the order of the simplices and of the vertices in each
QhullConventions == [tie : 0..1, reverse : BOOLEAN, rot : 0..2]

\* Delaunay(points).simplices under the conventions q (points not degenerate)
\* the triangulation the build returns among all those the points admit
PickTriangulation(all, q) ==
    LET first == CHOOSE T \in all : TRUE
    IN  IF q.tie = 1 /\ all # {first} THEN CHOOSE U \in all : U # first ELSE first

\* the simplices in the order of the build, each with its vertices in that order
ListSimplices(sorted, q) ==
    [k \in 1..Len(sorted) |->
        Rotate((IF q.reverse THEN Reverse(sorted) ELSE sorted)[k], q.rot)]

DelaunaySimplices(pts, q) ==
    ListSimplices(SortTriangles(PickTriangulation(DelaunayTriangulations(pts), q)), q)

\* the simplices of the arrays of the public calls, computed once
SimplicesOfCalls ==
    [c \in { <<pts, q>> : pts \in { p \in CallPoints : EmptyTriangles(p) # {} },
                           q \in QhullConventions } |->
        DelaunaySimplices(c[1], c[2])]

\* GraphTools._delaunay_triangulation: the Delaunay object of the points
\* (called only with points that are given and not degenerate)
_delaunay_triangulation(pts, q) ==
    [points |-> pts,
     simplices |-> IF pts \in CallPoints THEN SimplicesOfCalls[<<pts, q>>]
                   ELSE DelaunaySimplices(pts, q)]

(***************************************************************************)
(* Gabriel graph builder, GraphTools._gabriel_graph.                       *)
(***************************************************************************)
ToSet(list) == { list[k] : k \in 1..Len(list) }

\* n copies of v
Copies(v, n) == [k \in 1..n |-> v]

\* the first pairs of itertools.combinations_with_replacement(simplex, 2)
combinations_with_replacement2(simplex) ==
    << <<simplex[1], simplex[1]>>, <<simplex[1], simplex[2]>>, <<simplex[1], simplex[3]>> >>

\* itertools.combinations(simplex, 2)
combinations2(simplex) ==
    << <<simplex[1], simplex[2]>>, <<simplex[1], simplex[3]>>, <<simplex[2], simplex[3]>> >>

\* frozenset(edge)
frozenset(edge) == { edge[k] : k \in 1..Len(edge) }

\* Python's == between the tuple edge and an item of removed_edges, which is a
\* frozenset: a tuple equals no frozenset
TupleEqFrozenset(edge, item) == FALSE

\* edge in removed_edges
InRemovedEdges(edge, removed) ==
    \E k \in 1..Len(removed) : TupleEqFrozenset(edge, removed[k])

\* set(simplex).difference(set(edge))
Neighbors(simplex, edge) == frozenset(simplex) \ frozenset(edge)

\* a loop body that also skips the edges already listed in edges
VisitEdgeOnce(pts, simplex, edge, acc) ==
    IF InRemovedEdges(edge, acc.removed_edges) \/ frozenset(edge) \in ToSet(acc.edges)
    THEN acc
    ELSE LET x == PointAt(pts, edge[1])
             y == PointAt(pts, edge[2])
             inside == { n \in Neighbors(simplex, edge) :
                           _inside_midpoint_circle(x, y, PointAt(pts, n)) }
         IN  [edges |-> Append(acc.edges, frozenset(edge)),
              removed_edges |->
                  acc.removed_edges \o Copies(frozenset(edge), Cardinality(inside))]

\* the body of the loop over the edges of a simplex: acc holds the lists edges and
\* removed_edges
VisitEdge(pts, simplex, edge, acc) ==
    IF InRemovedEdges(edge, acc.removed_edges)
    THEN acc
    ELSE LET edge_point_x == PointAt(pts, edge[1])
             edge_point_y == PointAt(pts, edge[2])
             inside == { neighbor \in Neighbors(simplex, edge) :
                           _inside_midpoint_circle(edge_point_x, edge_point_y,
                                                   PointAt(pts, neighbor)) }
         IN  [edges |-> Append(acc.edges, frozenset(edge)),
              removed_edges |->
                  acc.removed_edges \o Copies(frozenset(edge), Cardinality(inside))]

\* the lists after the two nested loops (3 edges per simplex), started with acc
RunLoops(pts, simp, acc) ==
    LET after[k \in 0..(3 * Len(simp))] ==
            IF k = 0 THEN acc
            ELSE LET simplex == simp[((k - 1) \div 3) + 1]
                     edge    == combinations2(simplex)[((k - 1) % 3) + 1]
                 IN  VisitEdge(pts, simplex, edge, after[k - 1])
    IN  after[3 * Len(simp)]

\* a result that keeps every candidate edge
AllCandidates(acc) == ToSet(acc.edges)

\* set(edges).difference(set(removed_edges))
Difference(acc) == ToSet(acc.edges) \ ToSet(acc.removed_edges)

EmptyLists == [edges |-> << >>, removed_edges |-> << >>]

\* GraphTools._gabriel_graph(points), reading self.triangulation
_gabriel_graph(tri, pts) == Difference(RunLoops(pts, tri.simplices, EmptyLists))

(***************************************************************************)
(* The GraphTools instance.                                                *)
(***************************************************************************)
None == "None"
Metrics == {None, "custom"}

\* the values the variables hold while the instance lacks the attribute
NoTriangulation == [points |-> << >>, simplices |-> << >>]

\* an instance before __init__ has run
FreshSelf ==
    [attrs |-> {}, points |-> << >>, triangulation |-> NoTriangulation,
     simplices |-> << >>, gabriel_edges |-> {}, metric |-> None]

Self ==
    [attrs |-> attrs, points |-> points, triangulation |-> triangulation,
     simplices |-> simplices, gabriel_edges |-> gabriel_edges, metric |-> metric]

SetSelf(s) ==
    /\ attrs' = s.attrs
    /\ points' = s.points
    /\ triangulation' = s.triangulation
    /\ simplices' = s.simplices
    /\ gabriel_edges' = s.gabriel_edges
    /\ metric' = s.metric

\* the optional argument points: None, or an array
NoPoints == [given |-> FALSE, pts |-> << >>]
Given(pts) == [given |-> TRUE, pts |-> pts]
CallArgs == {NoPoints} \cup { Given(pts) : pts \in CallPoints }

\* self.points = points
SetPoints(self, pts) == [self EXCEPT !.attrs = @ \cup {"points"}, !.points = pts]

\* lines 18 and 19 exchanged: self.simplices is read before self.triangulation
\* is assigned, from the triangulation the instance had before
SetTriangulationStale(self, tri) ==
    [self EXCEPT !.attrs = @ \cup {"triangulation", "simplices"},
                 !.triangulation = tri,
                 !.simplices = self.triangulation.simplices]

\* self.triangulation = ...; self.simplices = self.triangulation.simplices
SetTriangulation(self, tri) ==
    [self EXCEPT !.attrs = @ \cup {"triangulation", "simplices"},
                 !.triangulation = tri,
                 !.simplices = tri.simplices]

\* self.gabriel_edges = self._gabriel_graph(points)
SetGabrielEdges(self, pts) ==
    [self EXCEPT !.attrs = @ \cup {"gabriel_edges"},
                 !.gabriel_edges = _gabriel_graph(self.triangulation, pts)]

\* self.metric = metric
SetMetric(self, m) == [self EXCEPT !.attrs = @ \cup {"metric"}, !.metric = m]

\* GraphTools.__init__(self, points, metric): the instance it leaves and the
\* exception it raises ("none" when it returns)
__init__(self, arg, m, q) ==
    IF ~arg.given
    THEN [exc |-> "none", self |-> SetMetric(self, m)]
    ELSE IF Degenerate(arg.pts)
    THEN [exc |-> "QhullError", self |-> SetPoints(self, arg.pts)]
    ELSE [exc |-> "none",
          self |-> SetMetric(
                       SetGabrielEdges(
                           SetTriangulation(SetPoints(self, arg.pts),
                                            _delaunay_triangulation(arg.pts, q)),
                           arg.pts),
                       m)]

\* what a public call leaves in last
Outcome(op, arg, exc, ret_edges, ret_tri) ==
    [op |-> op, given |-> arg.given, pts |-> arg.pts, exc |-> exc,
     ret_edges |-> ret_edges, ret_tri |-> ret_tri]

(***************************************************************************)
(* The public calls, each one whole.                                       *)
(***************************************************************************)
\* GraphTools(points, metric): a new instance replaces the observed one, unless
\* the constructor raises
New(arg, m) ==
    \E r \in {__init__(FreshSelf, arg, m, qhull)} :
        /\ pc = "idle"
        /\ IF r.exc = "none" THEN SetSelf(r.self) ELSE UNCHANGED objVars
        /\ last' = Outcome("GraphTools", arg, r.exc, {}, NoTriangulation)
        /\ repeated' = FALSE
        /\ UNCHANGED <<qhull, loopVars>>

\* GraphTools.gabriel_graph(points)
gabriel_graph(arg) ==
    \E r \in {IF arg.given THEN __init__(Self, arg, None, qhull)
                           ELSE [exc |-> "none", self |-> Self]} :
        /\ pc = "idle"
        /\ SetSelf(r.self)
        /\ last' = IF r.exc # "none"
                   THEN Outcome("gabriel_graph", arg, r.exc, {}, NoTriangulation)
                   ELSE IF "gabriel_edges" \notin r.self.attrs
                   THEN Outcome("gabriel_graph", arg, "AttributeError", {}, NoTriangulation)
                   ELSE Outcome("gabriel_graph", arg, "none", r.self.gabriel_edges,
                                NoTriangulation)
        /\ repeated' = (/\ arg.given
                        /\ last.op = "gabriel_graph"
                        /\ last.given
                        /\ last.pts = arg.pts)
        /\ UNCHANGED <<qhull, loopVars>>

\* GraphTools.delaunay(points)
delaunay(arg) ==
    \E r \in {IF arg.given THEN __init__(Self, arg, None, qhull)
                           ELSE [exc |-> "none", self |-> Self]} :
        /\ pc = "idle"
        /\ SetSelf(r.self)
        /\ last' = IF r.exc # "none"
                   THEN Outcome("delaunay", arg, r.exc, {}, NoTriangulation)
                   ELSE IF "triangulation" \notin r.self.attrs
                   THEN Outcome("delaunay", arg, "AttributeError", {}, NoTriangulation)
                   ELSE Outcome("delaunay", arg, "none", {}, r.self.triangulation)
        /\ repeated' = FALSE
        /\ UNCHANGED <<qhull, loopVars>>

IdleLoop ==
    /\ pc = "idle"
    /\ arg_points = << >>
    /\ si = 1
    /\ ei = 1
    /\ edges = << >>
    /\ removed_edges = << >>

\* after GraphTools(): no points, the default metric
Init ==
    /\ qhull \in QhullConventions
    /\ attrs = {"metric"}
    /\ points = << >>
    /\ triangulation = NoTriangulation
    /\ simplices = << >>
    /\ gabriel_edges = {}
    /\ metric = None
    /\ last = Outcome("GraphTools", NoPoints, "none", {}, NoTriangulation)
    /\ repeated = FALSE
    /\ IdleLoop

Next ==
    \/ \E arg \in CallArgs : \E m \in Metrics : New(arg, m)
    \/ \E arg \in CallArgs : gabriel_graph(arg)
    \/ \E arg \in CallArgs : delaunay(arg)

Spec == Init /\ [][Next]_vars

(***************************************************************************)
(* The loops of _gabriel_graph step by step, as run by GraphTools(points)  *)
(* once the points are stored and triangulated.                            *)
(***************************************************************************)
CurrentSimplex == triangulation.simplices[si]
CurrentEdge == combinations2(CurrentSimplex)[ei]

\* one iteration of the loop over the edges of the current simplex
EdgeStep ==
    /\ pc = "loop"
    /\ si <= Len(triangulation.simplices)
    /\ LET acc == VisitEdge(arg_points, CurrentSimplex, CurrentEdge,
                            [edges |-> edges, removed_edges |-> removed_edges])
       IN  /\ edges' = acc.edges
           /\ removed_edges' = acc.removed_edges
    /\ IF ei < 3 THEN ei' = ei + 1 /\ si' = si
                 ELSE ei' = 1 /\ si' = si + 1
    /\ UNCHANGED <<objVars, qhull, last, repeated, pc, arg_points>>

\* the loops are over: the difference is returned, and __init__ stores it and
\* the metric
Finish ==
    /\ pc = "loop"
    /\ si > Len(triangulation.simplices)
    /\ pc' = "done"
    /\ gabriel_edges' = Difference([edges |-> edges, removed_edges |-> removed_edges])
    /\ attrs' = attrs \cup {"gabriel_edges", "metric"}
    /\ metric' = None
    /\ UNCHANGED <<points, triangulation, simplices, qhull, last, repeated,
                   arg_points, si, ei, edges, removed_edges>>

InitBuild ==
    /\ qhull \in QhullConventions
    /\ \E pts \in { p \in PointArrays \cup CallPoints : ~Degenerate(p) } :
          /\ points = pts
          /\ arg_points = pts
          /\ triangulation = _delaunay_triangulation(pts, qhull)
          /\ last = Outcome("GraphTools", Given(pts), "none", {}, NoTriangulation)
    /\ simplices = triangulation.simplices
    /\ repeated = FALSE
    /\ attrs = {"points", "triangulation", "simplices"}
    /\ gabriel_edges = {}
    /\ metric = None
    /\ pc = "loop"
    /\ si = 1
    /\ ei = 1
    /\ edges = << >>
    /\ removed_edges = << >>

NextBuild == EdgeStep \/ Finish

SpecBuild == InitBuild /\ [][NextBuild]_vars

(***************************************************************************)
(* Reference notions the properties are stated with.                       *)
(***************************************************************************)
SquaredDistance(p, q) ==
    LET dx == p[1] - q[1]
        dy == p[2] - q[2]
    IN  dx * dx + dy * dy

\* |a-b|^2 > |a-p|^2 + |b-p|^2
StrictlyInsideCircle(a, b, p) ==
    SquaredDistance(a, b) > SquaredDistance(a, p) + SquaredDistance(b, p)

\* |a-b|^2 = |a-p|^2 + |b-p|^2
OnCircle(a, b, p) ==
    SquaredDistance(a, b) = SquaredDistance(a, p) + SquaredDistance(b, p)

\* (a - c) . (b - c) < 0: the angle at c of the triangle a, b, c is obtuse
ObtuseAt(a, b, c) ==
    (a[1] - c[1]) * (b[1] - c[1]) + (a[2] - c[2]) * (b[2] - c[2]) < 0

Lo(e) == CHOOSE a \in e : \A b \in e : a <= b
Hi(e) == CHOOSE a \in e : \A b \in e : b <= a

Vertices(simplex) == { simplex[i] : i \in 1..3 }

\* the edges of the triangulation: the pairs of vertices of one same simplex
TriangulationEdges(simp) ==
    { e \in SUBSET (UNION { Vertices(simp[k]) : k \in 1..Len(simp) }) :
        Cardinality(e) = 2 /\ \E k \in 1..Len(simp) : e \subseteq Vertices(simp[k]) }

\* the simplices that contain the edge e
SimplicesOf(simp, e) == { k \in 1..Len(simp) : e \subseteq Vertices(simp[k]) }

\* some other vertex of the simplex k lies strictly inside the circle of diameter e
ViolatedIn(pts, simp, e, k) ==
    \E p \in Vertices(simp[k]) \ e :
        StrictlyInsideCircle(PointAt(pts, Lo(e)), PointAt(pts, Hi(e)), PointAt(pts, p))

GabrielBySimplices(pts, simp) ==
    { e \in TriangulationEdges(simp) :
        \A k \in SimplicesOf(simp, e) : ~ViolatedIn(pts, simp, e, k) }

\* the edges of the triangulation whose circle holds no point of the array at all
FullGabriel(pts, simp) ==
    { e \in TriangulationEdges(simp) :
        \A p \in Indices(pts) \ e :
            ~StrictlyInsideCircle(PointAt(pts, Lo(e)), PointAt(pts, Hi(e)),
                                  PointAt(pts, p)) }

\* fewer than 3 points, or all of them on one line
TooFewOrCollinear(pts) ==
    \A i \in Indices(pts) : \A j \in Indices(pts) : \A k \in Indices(pts) :
        (PointAt(pts, j)[1] - PointAt(pts, i)[1]) * (PointAt(pts, k)[2] - PointAt(pts, i)[2])
          = (PointAt(pts, j)[2] - PointAt(pts, i)[2]) * (PointAt(pts, k)[1] - PointAt(pts, i)[1])

PermutationsOf(n) == { f \in [1..n -> 1..n] : \A i \in 1..n : \E j \in 1..n : f[j] = i }

\* the simplices listed in the order perm, the vertices of the j-th listed in
\* the order vo[j]
Reordered(simp, perm, vo) ==
    [j \in 1..Len(simp) |-> [i \in 1..3 |-> simp[perm[j]][vo[j][i]]]]

IsUnitSquare(pts) ==
    Len(pts) = 4 /\ ToSet(pts) = { <<0, 0>>, <<1, 0>>, <<1, 1>>, <<0, 1>> }

Done == pc = "done"

(***************************************************************************)
(* Properties of the build (SpecBuild).                                    *)
(***************************************************************************)
\* C1: the returned set holds an edge {a, b} exactly when {a, b} is an edge of
\* some simplex and, in every simplex that contains a and b, no other vertex p
\* has |a-b|^2 > |a-p|^2 + |b-p|^2; the loops taken step by step return what
\* the call taken whole returns.
C1_EdgeSurvivesIffNoSimplexViolates ==
    Done =>
        /\ gabriel_edges = GabrielBySimplices(arg_points, triangulation.simplices)
        /\ gabriel_edges = _gabriel_graph(triangulation, arg_points)

\* an edge of two simplices, violated in one and not in the other, was left out,
\* and some edge was returned
C1_Witness ==
    /\ Done
    /\ gabriel_edges # {}
    /\ \E e \in TriangulationEdges(triangulation.simplices) :
          /\ Cardinality(SimplicesOf(triangulation.simplices, e)) = 2
          /\ \E k \in SimplicesOf(triangulation.simplices, e) :
                ViolatedIn(arg_points, triangulation.simplices, e, k)
          /\ \E k \in SimplicesOf(triangulation.simplices, e) :
                ~ViolatedIn(arg_points, triangulation.simplices, e, k)
          /\ e \notin gabriel_edges

\* the library lists the simplices, and the vertices of each, in increasing order
ListedInOrder == ~qhull.reverse /\ qhull.rot = 0

\* C3: for the points and simplices of the build, _gabriel_graph returns the
\* set that was returned for every order of the list of simplices and every
\* order of the vertices inside each simplex.  (Stated of the builds whose
\* simplices came listed in increasing order: the other listings of the same
\* simplices are among the orders quantified over.)
C3_OrderIndependent ==
    (Done /\ ListedInOrder) =>
        LET simp == triangulation.simplices
        IN  \A perm \in PermutationsOf(Len(simp)) :
              \A vo \in [1..Len(simp) -> PermutationsOf(3)] :
                _gabriel_graph([points |-> arg_points,
                                simplices |-> Reordered(simp, perm, vo)], arg_points)
                  = gabriel_edges

\* three simplices listed in decreasing order, an edge of theirs left out
C3_Witness ==
    /\ Done
    /\ ListedInOrder
    /\ Len(triangulation.simplices) = 3
    /\ gabriel_edges # TriangulationEdges(triangulation.simplices)
    /\ gabriel_edges # {}

\* C4: every returned edge is a pair of two distinct vertex indices of one same
\* simplex of the triangulation.
C4_SubsetOfTriangulation ==
    Done =>
        \A e \in gabriel_edges :
            /\ Cardinality(e) = 2
            /\ e \subseteq Indices(arg_points)
            /\ \E k \in 1..Len(triangulation.simplices) :
                  e \subseteq Vertices(triangulation.simplices[k])

\* a proper, non-empty part of the edges of the triangulation was returned
C4_Witness ==
    /\ Done
    /\ gabriel_edges # {}
    /\ gabriel_edges \subseteq TriangulationEdges(triangulation.simplices)
    /\ gabriel_edges # TriangulationEdges(triangulation.simplices)

\* C5: an edge whose opposite vertices all lie on or outside its circle, one of
\* them exactly on it, is kept; for the square (0,0),(1,0),(1,1),(0,1), cut in
\* two triangles along one diagonal, the 4 sides and the diagonal are returned
\* and nothing is listed as removed.
C5_TieKeepsEdge ==
    Done =>
        LET simp == triangulation.simplices
        IN  /\ \A e \in TriangulationEdges(simp) :
                  (/\ \A k \in SimplicesOf(simp, e) : ~ViolatedIn(arg_points, simp, e, k)
                   /\ \E k \in SimplicesOf(simp, e) : \E p \in Vertices(simp[k]) \ e :
                         OnCircle(PointAt(arg_points, Lo(e)), PointAt(arg_points, Hi(e)),
                                  PointAt(arg_points, p)))
                  => e \in gabriel_edges /\ e \notin ToSet(removed_edges)
            /\ IsUnitSquare(arg_points) =>
                  /\ Len(simp) = 2
                  /\ Cardinality(gabriel_edges) = 5
                  /\ gabriel_edges = TriangulationEdges(simp)
                  /\ removed_edges = << >>

\* the square was built: 5 edges, the kept diagonal with both other corners
\* exactly on its circle
C5_Witness ==
    /\ Done
    /\ IsUnitSquare(arg_points)
    /\ Cardinality(gabriel_edges) = 5
    /\ \E e \in gabriel_edges :
          /\ Cardinality(SimplicesOf(triangulation.simplices, e)) = 2
          /\ \A p \in Indices(arg_points) \ e :
                OnCircle(PointAt(arg_points, Lo(e)), PointAt(arg_points, Hi(e)),
                         PointAt(arg_points, p))

\* C9: while the loops run, an edge already listed in removed_edges is skipped:
\* the step that meets it again appends nothing to edges nor to removed_edges.
C9_RemovedEdgeSkipped ==
    [][(/\ pc = "loop"
        /\ si <= Len(triangulation.simplices)
        /\ frozenset(CurrentEdge) \in ToSet(removed_edges))
       => (edges' = edges /\ removed_edges' = removed_edges)]_vars

\* C10: for 3 points, an edge is left out exactly when the angle at the opposite
\* vertex is obtuse; without an obtuse angle the 3 edges are returned, with one
\* exactly the 2 edges that meet at the obtuse angle.
C10_SingleTriangle ==
    (Done /\ Len(arg_points) = 3) =>
        LET P(i) == PointAt(arg_points, i)
            Opp(e) == CHOOSE c \in {0, 1, 2} : c \notin e
            Pairs == { e \in SUBSET {0, 1, 2} : Cardinality(e) = 2 }
            obtuse == { e \in Pairs : ObtuseAt(P(Lo(e)), P(Hi(e)), P(Opp(e))) }
        IN  /\ gabriel_edges = Pairs \ obtuse
            /\ Cardinality(obtuse) <= 1
            /\ Cardinality(gabriel_edges) = IF obtuse = {} THEN 3 ELSE 2

\* a triangle with an obtuse angle was built and lost one edge
C10_Witness ==
    /\ Done
    /\ Len(arg_points) = 3
    /\ Cardinality(gabriel_edges) = 2
    /\ \E c \in {0, 1, 2} :
          /\ ObtuseAt(PointAt(arg_points, Lo({0, 1, 2} \ {c})),
                      PointAt(arg_points, Hi({0, 1, 2} \ {c})), PointAt(arg_points, c))
          /\ ({0, 1, 2} \ {c}) \notin gabriel_edges

(***************************************************************************)
(* Properties of the public calls (Spec).                                  *)
(***************************************************************************)
\* C2: whenever the instance has points, it has a triangulation, simplices and
\* Gabriel edges, and they are those of these points.
C2_CachedStateConsistent ==
    "points" \in attrs =>
        /\ {"triangulation", "simplices", "gabriel_edges"} \subseteq attrs
        /\ triangulation.points = points
        /\ simplices = triangulation.simplices
        /\ gabriel_edges = GabrielBySimplices(points, simplices)

\* a call made with points: it fails with the library's error when they are too
\* few or collinear, and otherwise returns the full Gabriel edge set of the
\* points (gabriel_graph) or their triangulation (delaunay)
WithPointsFullOrFailure ==
    last.given =>
        IF TooFewOrCollinear(last.pts)
        THEN last.exc = "QhullError" /\ last.ret_edges = {}
        ELSE /\ last.exc = "none"
             /\ last.op = "gabriel_graph" =>
                   /\ triangulation.points = last.pts
                   /\ last.ret_edges = FullGabriel(last.pts, triangulation.simplices)
             /\ last.op = "delaunay" => last.ret_tri.points = last.pts

\* a call made without points that returns an edge set: the full Gabriel edge
\* set of the points the instance holds
WithoutPointsFullOrFailure ==
    (~last.given /\ last.op = "gabriel_graph" /\ last.exc = "none") =>
        /\ "points" \in attrs
        /\ triangulation.points = points
        /\ last.ret_edges = FullGabriel(points, triangulation.simplices)

\* C6: a call with too few or collinear points fails with the library's error
\* and returns no edge set; every call either fails or returns the full
\* Gabriel edge set of the points asked for, never one of other points.
C6_FullEdgeSetOrFailure == WithPointsFullOrFailure /\ WithoutPointsFullOrFailure

\* C7: gabriel_graph() or delaunay() called without points on an instance that
\* has no points fails with the "No points!" assertion, and in no other way.
C7_MissingPointsInvalidArgument ==
    (last.op \in {"gabriel_graph", "delaunay"} /\ ~last.given /\ "points" \notin attrs)
        => last.exc = "AssertionError"

\* C8: gabriel_graph(points) called twice in a row with the same points: the
\* second call returns what the first returned and leaves the instance as the
\* first left it.
C8_RebuildIdempotent ==
    [][repeated' =>
        /\ last'.exc = last.exc
        /\ last'.ret_edges = last.ret_edges
        /\ objVars' = objVars]_vars

\* the second of two gabriel_graph(points) calls with the same points returned
\* an edge set, on an instance built before with other points and another metric
C8_Witness ==
    /\ repeated
    /\ last.exc = "none"
    /\ last.ret_edges # {}
    /\ last.ret_edges = gabriel_edges
    /\ points = last.pts

=============================================================================
